---- MODULE Spec2Model ----
(***************************************************************************)
(* Model of FreeRTOS/portable/MemMang/heap_2.c as modified in this         *)
(* repository: a size-ordered free list over one static arena, with an     *)
(* optional merge of address-adjacent free blocks on insertion.            *)
(*                                                                         *)
(* Pointers are integer addresses.  Block headers (BlockLink_t) are        *)
(* records stored at their address; ucHeap maps every address at which a   *)
(* header has been written to that header (stale headers stay in memory,   *)
(* as they do in the arena).  xStart and xEnd are the two static sentinel  *)
(* objects; they live at the addresses pxStart and pxEnd.                  *)
(*                                                                         *)
(* vTaskSuspendAll()/xTaskResumeAll() bracket the body of pvPortMalloc     *)
(* and vPortFree, so a task is modelled with two positions: it has called  *)
(* the function (arguments in its frame, scheduler not yet suspended), and *)
(* the critical section, which runs as one step.                           *)
(***************************************************************************)
EXTENDS Integers, Sequences, FiniteSets, TLC

\* ------------------------------------------------------------------ bounds
\* Number of API calls issued in one run of Spec.
MaxCalls == 5
\* Number of API calls issued (and logged) in one run of LogSpec.
MaxLogged == 4
\* Number of concurrent tasks.
NumTasks == 2

\* ------------------------------------------------- configuration, layout
\* size_t is 32 bits wide on the target; a size_t value is kept as the pair
\* <<high half-word, low half-word>> where it can wrap.
HalfWord == 65536

portBYTE_ALIGNMENT == 8
portBYTE_ALIGNMENT_MASK == portBYTE_ALIGNMENT - 1
sizeofBlockLink_t == 8

\* ( x + ( portBYTE_ALIGNMENT - 1 ) ) & ~portBYTE_ALIGNMENT_MASK
AlignUp(x) == ((x + (portBYTE_ALIGNMENT - 1)) \div portBYTE_ALIGNMENT) * portBYTE_ALIGNMENT
\* x & ~portBYTE_ALIGNMENT_MASK
AlignDown(x) == (x \div portBYTE_ALIGNMENT) * portBYTE_ALIGNMENT

heapSTRUCT_SIZE == AlignUp(sizeofBlockLink_t)
heapMINIMUM_BLOCK_SIZE == heapSTRUCT_SIZE * 2

NULL == 0
\* Addresses of the static objects xStart, xEnd and ucHeap[0].
pxStart == 16
pxEnd == 32
ucHeapAddress == 4100


Tasks == 1 .. NumTasks

VARIABLES
    if_merge_mem,             \* configuration flag read by prvInsertBlockIntoFreeList
    configTOTAL_HEAP_SIZE,    \* configuration constant of the build
    ucHeap,                   \* headers written in the arena: address -> BlockLink_t
    xStart, xEnd,             \* the sentinels
    xFreeBytesRemaining,
    xHeapHasBeenInitialised,
    pc,                       \* task -> "idle" | "pvPortMalloc" | "vPortFree"
    frame,                    \* task -> arguments of the call in progress
    allocated,                \* pointers returned by pvPortMalloc and not yet freed
    log,                      \* the completed calls, in LogSpec
    recording,                \* TRUE in LogSpec
    nCalls                    \* calls issued so far

vars == <<if_merge_mem, configTOTAL_HEAP_SIZE, ucHeap, xStart, xEnd,
          xFreeBytesRemaining, xHeapHasBeenInitialised, pc, frame, allocated,
          log, recording, nCalls>>

configADJUSTED_HEAP_SIZE == configTOTAL_HEAP_SIZE - portBYTE_ALIGNMENT

\* ------------------------------------------------------ size_t arithmetic
SizeT(n) == <<n \div HalfWord, n % HalfWord>>
\* a + k in size_t, k a small natural
SizeAdd(a, k) ==
    LET lo == a[2] + k
    IN  <<(a[1] + (lo \div HalfWord)) % HalfWord, lo % HalfWord>>
\* a & portBYTE_ALIGNMENT_MASK
SizeMask(a) == a[2] % portBYTE_ALIGNMENT
SizeLess(a, b) == a[1] < b[1] \/ (a[1] = b[1] /\ a[2] < b[2])
\* the value of a size_t known to be below 2^31
SizeVal(a) == a[1] * HalfWord + a[2]

\* ------------------------------------------------------------ the memory
BlockLink_t(next, size) == [pxNextFreeBlock |-> next, xBlockSize |-> size]

\* One view of everything a BlockLink_t pointer can point at.
Memory == [a \in DOMAIN ucHeap \cup {pxStart, pxEnd} |->
              IF a = pxStart THEN xStart
              ELSE IF a = pxEnd THEN xEnd
              ELSE ucHeap[a]]

\* Writing a field through a pointer (the header need not have been written before).
SetSize(M, p, size) ==
    IF p \in DOMAIN M THEN [M EXCEPT ![p].xBlockSize = size]
    ELSE [a \in DOMAIN M \cup {p} |-> IF a = p THEN BlockLink_t(NULL, size) ELSE M[a]]
SetNext(M, p, next) == [M EXCEPT ![p].pxNextFreeBlock = next]

pucAlignedHeap == AlignDown(ucHeapAddress + portBYTE_ALIGNMENT)


\* ------------------------------------------------------------ prvHeapInit
prvHeapInit(M) ==
    LET M1 == [M EXCEPT ![pxStart] = BlockLink_t(pucAlignedHeap, 0)]
        M2 == [M1 EXCEPT ![pxEnd] = BlockLink_t(NULL, configADJUSTED_HEAP_SIZE)]
        pxFirstFreeBlock == pucAlignedHeap
    IN  SetNext(SetSize(M2, pxFirstFreeBlock, configADJUSTED_HEAP_SIZE),
                pxFirstFreeBlock, pxEnd)

\* --------------------------------------------- prvInsertBlockIntoFreeList
\* MergeScan that leaves a free block that starts at xEndAddress alone.
RECURSIVE MergeScan_LeftOnly(_, _, _, _, _, _, _)
MergeScan_LeftOnly(M, pxBlockPtr, pxPrevBlock, pxCurBlock, xStartAddress, xEndAddress, xBlockSize) ==
    IF pxCurBlock = pxEnd
    THEN [mem |-> M, pxBlockPtr |-> pxBlockPtr]
    ELSE
      IF xStartAddress # pxCurBlock + M[pxCurBlock].xBlockSize
      THEN MergeScan_LeftOnly(M, pxBlockPtr, pxCurBlock, M[pxCurBlock].pxNextFreeBlock,
                              xStartAddress, xEndAddress, xBlockSize)
      ELSE
        LET M1 == SetSize(M, pxCurBlock, M[pxCurBlock].xBlockSize + xBlockSize)
            M2 == SetNext(M1, pxPrevBlock, M1[pxCurBlock].pxNextFreeBlock)
        IN  MergeScan_LeftOnly(M2, pxCurBlock, pxPrevBlock, M2[pxCurBlock].pxNextFreeBlock,
                               xStartAddress, xEndAddress, xBlockSize)

\* The merge loop.  xStartAddress, xEndAddress and xBlockSize are computed
\* once before the loop and never updated by it.
RECURSIVE MergeScan(_, _, _, _, _, _, _)
MergeScan(M, pxBlockPtr, pxPrevBlock, pxCurBlock, xStartAddress, xEndAddress, xBlockSize) ==
    IF pxCurBlock = pxEnd
    THEN [mem |-> M, pxBlockPtr |-> pxBlockPtr]
    ELSE
      LET xCurBlockStartAddr == pxCurBlock
          xCurBlockEndAddr == xCurBlockStartAddr + M[pxCurBlock].xBlockSize
          xCurBlockSize == M[pxCurBlock].xBlockSize
      IN  IF xStartAddress # xCurBlockEndAddr /\ xEndAddress # xCurBlockStartAddr
          THEN MergeScan(M, pxBlockPtr, pxCurBlock, M[pxCurBlock].pxNextFreeBlock,
                         xStartAddress, xEndAddress, xBlockSize)
          ELSE
            LET after == xStartAddress = xCurBlockEndAddr
                ptr1 == IF after THEN pxCurBlock ELSE pxBlockPtr
                M1 == IF after
                      THEN SetSize(M, pxCurBlock, M[pxCurBlock].xBlockSize + xBlockSize)
                      ELSE SetSize(M, pxBlockPtr, M[pxBlockPtr].xBlockSize + xCurBlockSize)
                M2 == SetNext(M1, pxPrevBlock, M1[pxCurBlock].pxNextFreeBlock)
            IN  MergeScan(M2, ptr1, pxPrevBlock, M2[pxCurBlock].pxNextFreeBlock,
                          xStartAddress, xEndAddress, xBlockSize)

\* InsertPosition that links every block at the end of the list.
RECURSIVE InsertPosition_Tail(_, _, _)
InsertPosition_Tail(M, pxIterator, xBlockSize) ==
    IF M[pxIterator].pxNextFreeBlock # pxEnd
    THEN InsertPosition_Tail(M, M[pxIterator].pxNextFreeBlock, xBlockSize)
    ELSE pxIterator

\* InsertPosition that walks past the blocks of equal size too.
RECURSIVE InsertPosition_AfterTies(_, _, _)
InsertPosition_AfterTies(M, pxIterator, xBlockSize) ==
    IF M[M[pxIterator].pxNextFreeBlock].xBlockSize <= xBlockSize
       /\ M[pxIterator].pxNextFreeBlock # pxEnd
    THEN InsertPosition_AfterTies(M, M[pxIterator].pxNextFreeBlock, xBlockSize)
    ELSE pxIterator

\* InsertPosition that links every block right behind xStart.
InsertPosition_Head(M, pxIterator, xBlockSize) == pxIterator

\* The for loop that finds the node after which the block is linked.
RECURSIVE InsertPosition(_, _, _)
InsertPosition(M, pxIterator, xBlockSize) ==
    IF M[M[pxIterator].pxNextFreeBlock].xBlockSize < xBlockSize
    THEN InsertPosition(M, M[pxIterator].pxNextFreeBlock, xBlockSize)
    ELSE pxIterator

prvInsertBlockIntoFreeList(M, pxBlockToInsert) ==
    LET xBlockSize0 == M[pxBlockToInsert].xBlockSize
        merged == IF if_merge_mem = 1
                  THEN MergeScan(M, pxBlockToInsert, pxStart, M[pxStart].pxNextFreeBlock,
                                 pxBlockToInsert, pxBlockToInsert + xBlockSize0, xBlockSize0)
                  ELSE [mem |-> M, pxBlockPtr |-> pxBlockToInsert]
        M1 == merged.mem
        pxBlockPtr == merged.pxBlockPtr
        xBlockSize == M1[pxBlockPtr].xBlockSize
        pxIterator == InsertPosition(M1, pxStart, xBlockSize)
    IN  SetNext(SetNext(M1, pxBlockPtr, M1[pxIterator].pxNextFreeBlock),
                pxIterator, pxBlockPtr)

\* ----------------------------------------------------------- pvPortMalloc
\* AdjustedWantedSize that adds the header to a request of zero bytes too.
AdjustedWantedSize_NoGuard(xWantedSize) ==
    LET w == SizeAdd(xWantedSize, heapSTRUCT_SIZE)
    IN  IF SizeMask(w) # 0
        THEN SizeAdd(w, portBYTE_ALIGNMENT - SizeMask(w))
        ELSE w

\* xWantedSize after the header has been added and the size aligned.
AdjustedWantedSize(xWantedSize) ==
    IF SizeLess(SizeT(0), xWantedSize)
    THEN LET w == SizeAdd(xWantedSize, heapSTRUCT_SIZE)
         IN  IF SizeMask(w) # 0
             THEN SizeAdd(w, portBYTE_ALIGNMENT - SizeMask(w))
             ELSE w
    ELSE xWantedSize

\* SizeInRange with <= in place of <.
SizeInRange_Inclusive(xWantedSize) ==
    /\ SizeLess(SizeT(0), xWantedSize)
    /\ ~SizeLess(SizeT(configADJUSTED_HEAP_SIZE), xWantedSize)

\* ( xWantedSize > 0 ) && ( xWantedSize < configADJUSTED_HEAP_SIZE )
SizeInRange(xWantedSize) ==
    /\ SizeLess(SizeT(0), xWantedSize)
    /\ SizeLess(xWantedSize, SizeT(configADJUSTED_HEAP_SIZE))

\* FindBlock that also walks past a block of exactly the wanted size.
RECURSIVE FindBlock_SkipExact(_, _, _, _)
FindBlock_SkipExact(M, pxPreviousBlock, pxBlock, xWantedSize) ==
    IF M[pxBlock].xBlockSize <= xWantedSize /\ M[pxBlock].pxNextFreeBlock # NULL
    THEN FindBlock_SkipExact(M, pxBlock, M[pxBlock].pxNextFreeBlock, xWantedSize)
    ELSE [pxPreviousBlock |-> pxPreviousBlock, pxBlock |-> pxBlock]

\* The while loop that walks the list from the smallest block.
RECURSIVE FindBlock(_, _, _, _)
FindBlock(M, pxPreviousBlock, pxBlock, xWantedSize) ==
    IF M[pxBlock].xBlockSize < xWantedSize /\ M[pxBlock].pxNextFreeBlock # NULL
    THEN FindBlock(M, pxBlock, M[pxBlock].pxNextFreeBlock, xWantedSize)
    ELSE [pxPreviousBlock |-> pxPreviousBlock, pxBlock |-> pxBlock]

\* SplitBlock that starts the new block one header too early.
SplitBlock_Overlap(M, pxBlock, xWantedSize) ==
    IF M[pxBlock].xBlockSize - xWantedSize > heapMINIMUM_BLOCK_SIZE
    THEN LET pxNewBlockLink == pxBlock + xWantedSize - heapSTRUCT_SIZE
             M1 == SetSize(M, pxNewBlockLink, M[pxBlock].xBlockSize - xWantedSize)
             M2 == SetSize(M1, pxBlock, xWantedSize)
         IN  prvInsertBlockIntoFreeList(M2, pxNewBlockLink)
    ELSE M

\* SplitBlock that also splits when exactly the minimum block size is left.
SplitBlock_AtLimit(M, pxBlock, xWantedSize) ==
    IF M[pxBlock].xBlockSize - xWantedSize >= heapMINIMUM_BLOCK_SIZE
    THEN LET pxNewBlockLink == pxBlock + xWantedSize
             M1 == SetSize(M, pxNewBlockLink, M[pxBlock].xBlockSize - xWantedSize)
             M2 == SetSize(M1, pxBlock, xWantedSize)
         IN  prvInsertBlockIntoFreeList(M2, pxNewBlockLink)
    ELSE M

\* pxBlock is split, or handed out whole.
SplitBlock(M, pxBlock, xWantedSize) ==
    IF M[pxBlock].xBlockSize - xWantedSize > heapMINIMUM_BLOCK_SIZE
    THEN LET pxNewBlockLink == pxBlock + xWantedSize
             M1 == SetSize(M, pxNewBlockLink, M[pxBlock].xBlockSize - xWantedSize)
             M2 == SetSize(M1, pxBlock, xWantedSize)
         IN  prvInsertBlockIntoFreeList(M2, pxNewBlockLink)
    ELSE M

\* Allocate that unlinks the block the search stopped at before it tests
\* whether that block is xEnd.
Allocate_UnlinkFirst(M, freeBytes, xWantedSizeArg) ==
    LET adjusted == AdjustedWantedSize(xWantedSizeArg)
    IN  IF ~SizeInRange(adjusted)
        THEN [mem |-> M, xFreeBytesRemaining |-> freeBytes, pvReturn |-> NULL]
        ELSE
          LET xWantedSize == SizeVal(adjusted)
              found == FindBlock(M, pxStart, M[pxStart].pxNextFreeBlock, xWantedSize)
              pxPreviousBlock == found.pxPreviousBlock
              pxBlock == found.pxBlock
              M1 == SetNext(M, pxPreviousBlock, M[pxBlock].pxNextFreeBlock)
          IN  IF pxBlock = pxEnd
              THEN [mem |-> M1, xFreeBytesRemaining |-> freeBytes, pvReturn |-> NULL]
              ELSE
                LET pvReturn == M[pxPreviousBlock].pxNextFreeBlock + heapSTRUCT_SIZE
                    M2 == SplitBlock(M1, pxBlock, xWantedSize)
                IN  [mem |-> M2,
                     xFreeBytesRemaining |-> freeBytes - M2[pxBlock].xBlockSize,
                     pvReturn |-> pvReturn]

\* Allocate that takes the size of the block as it was found on the list,
\* before the split, off the counter.
Allocate_PreSplit(M, freeBytes, xWantedSizeArg) ==
    LET adjusted == AdjustedWantedSize(xWantedSizeArg)
    IN  IF ~SizeInRange(adjusted)
        THEN [mem |-> M, xFreeBytesRemaining |-> freeBytes, pvReturn |-> NULL]
        ELSE
          LET xWantedSize == SizeVal(adjusted)
              found == FindBlock(M, pxStart, M[pxStart].pxNextFreeBlock, xWantedSize)
              pxPreviousBlock == found.pxPreviousBlock
              pxBlock == found.pxBlock
          IN  IF pxBlock = pxEnd
              THEN [mem |-> M, xFreeBytesRemaining |-> freeBytes, pvReturn |-> NULL]
              ELSE
                LET pvReturn == M[pxPreviousBlock].pxNextFreeBlock + heapSTRUCT_SIZE
                    M1 == SetNext(M, pxPreviousBlock, M[pxBlock].pxNextFreeBlock)
                    M2 == SplitBlock(M1, pxBlock, xWantedSize)
                IN  [mem |-> M2,
                     xFreeBytesRemaining |-> freeBytes - M[pxBlock].xBlockSize,
                     pvReturn |-> pvReturn]

\* The body of the critical section after the lazy initialisation.
Allocate(M, freeBytes, xWantedSizeArg) ==
    LET adjusted == AdjustedWantedSize(xWantedSizeArg)
    IN  IF ~SizeInRange(adjusted)
        THEN [mem |-> M, xFreeBytesRemaining |-> freeBytes, pvReturn |-> NULL]
        ELSE
          LET xWantedSize == SizeVal(adjusted)
              found == FindBlock(M, pxStart, M[pxStart].pxNextFreeBlock, xWantedSize)
              pxPreviousBlock == found.pxPreviousBlock
              pxBlock == found.pxBlock
          IN  IF pxBlock = pxEnd
              THEN [mem |-> M, xFreeBytesRemaining |-> freeBytes, pvReturn |-> NULL]
              ELSE
                LET pvReturn == M[pxPreviousBlock].pxNextFreeBlock + heapSTRUCT_SIZE
                    M1 == SetNext(M, pxPreviousBlock, M[pxBlock].pxNextFreeBlock)
                    M2 == SplitBlock(M1, pxBlock, xWantedSize)
                IN  [mem |-> M2,
                     xFreeBytesRemaining |-> freeBytes - M2[pxBlock].xBlockSize,
                     pvReturn |-> pvReturn]

\* -------------------------------------------------------------- vPortFree
Release(M, freeBytes, pv) ==
    LET pxLink == pv - heapSTRUCT_SIZE
        M1 == prvInsertBlockIntoFreeList(M, pxLink)
    IN  [mem |-> M1, xFreeBytesRemaining |-> freeBytes + M1[pxLink].xBlockSize]

\* ------------------------------------------------------------ the tasks
\* Request sizes the tasks pass to pvPortMalloc.  In Spec: zero, two small
\* sizes, the two largest that could fit, and two at the top of the size_t
\* range.  In LogSpec: zero, one byte, the sizes of the documented scenario
\* and the two largest that could fit.
WantedSizes ==
    {SizeT(0), SizeT(1),
     SizeT(configADJUSTED_HEAP_SIZE - heapSTRUCT_SIZE),
     SizeT(configADJUSTED_HEAP_SIZE - heapSTRUCT_SIZE - portBYTE_ALIGNMENT)}
    \cup (IF recording
          THEN {SizeT(50), SizeT(100), SizeT(200)}
          ELSE {SizeT(20), <<HalfWord - 1, HalfWord - 1>>, <<HalfWord - 1, HalfWord - 8>>})

NoFrame == [xWantedSize |-> SizeT(0), pv |-> NULL]

Entry(op, xWantedSize, pv, ret) ==
    [op |-> op, xWantedSize |-> xWantedSize, pv |-> pv, ret |-> ret]

Logged(e) == IF recording THEN Append(log, e) ELSE log

\* The values of configTOTAL_HEAP_SIZE the model is built with: a small arena
\* for Spec, the arena of the documented scenario for LogSpec.
TotalHeapSizes == IF recording THEN {1032} ELSE {80}

\* Spec bounds the number of calls of a run.  LogSpec does too, and there
\* the calls are issued one at a time (no other activity).
CallAllowed ==
    IF recording
    THEN nCalls < MaxLogged /\ \A u \in Tasks : pc[u] = "idle"
    ELSE nCalls < MaxCalls

\* Store a memory view back into the three objects it is made of.
Store(M) ==
    /\ xStart' = M[pxStart]
    /\ xEnd' = M[pxEnd]
    /\ ucHeap' = [a \in DOMAIN M \ {pxStart, pxEnd} |-> M[a]]

InitCommon ==
    /\ if_merge_mem \in {0, 1}
    /\ configTOTAL_HEAP_SIZE \in TotalHeapSizes
    /\ ucHeap = [a \in {} |-> BlockLink_t(NULL, 0)]
    /\ xStart = BlockLink_t(NULL, 0)
    /\ xEnd = BlockLink_t(NULL, 0)
    /\ xFreeBytesRemaining = configADJUSTED_HEAP_SIZE
    /\ xHeapHasBeenInitialised = FALSE
    /\ pc = [t \in Tasks |-> "idle"]
    /\ frame = [t \in Tasks |-> NoFrame]
    /\ allocated = {}
    /\ log = << >>
    /\ nCalls = 0

Init == recording = FALSE /\ InitCommon

LogInit == recording = TRUE /\ InitCommon

\* LazyInit that runs prvHeapInit in every call.
LazyInit_Always(M, initialised) == prvHeapInit(M)

\* if( xHeapHasBeenInitialised == pdFALSE ) prvHeapInit();
LazyInit(M, initialised) ==
    IF initialised = FALSE THEN prvHeapInit(M) ELSE M

\* A task calls pvPortMalloc( xWantedSize ).
pvPortMalloc_Call(t, xWantedSize) ==
    /\ pc[t] = "idle"
    /\ CallAllowed
    /\ pc' = [pc EXCEPT ![t] = "pvPortMalloc"]
    /\ frame' = [frame EXCEPT ![t] = [xWantedSize |-> xWantedSize, pv |-> NULL]]
    /\ nCalls' = nCalls + 1
    /\ UNCHANGED <<if_merge_mem, configTOTAL_HEAP_SIZE, ucHeap, xStart, xEnd,
                   xFreeBytesRemaining, xHeapHasBeenInitialised, allocated,
                   log, recording>>

\* vTaskSuspendAll() ... xTaskResumeAll() of pvPortMalloc, and its return.
pvPortMalloc_Critical(t) ==
    /\ pc[t] = "pvPortMalloc"
    /\ LET M0 == LazyInit(Memory, xHeapHasBeenInitialised)
           r == Allocate(M0, xFreeBytesRemaining, frame[t].xWantedSize)
       IN  /\ Store(r.mem)
           /\ xFreeBytesRemaining' = r.xFreeBytesRemaining
           /\ allocated' = IF r.pvReturn = NULL THEN allocated
                           ELSE allocated \cup {r.pvReturn}
           /\ log' = Logged(Entry("pvPortMalloc", frame[t].xWantedSize, NULL, r.pvReturn))
    /\ xHeapHasBeenInitialised' = TRUE
    /\ pc' = [pc EXCEPT ![t] = "idle"]
    /\ frame' = [frame EXCEPT ![t] = NoFrame]
    /\ UNCHANGED <<if_merge_mem, configTOTAL_HEAP_SIZE, recording, nCalls>>

\* A task calls vPortFree( pv ) with a pointer it was given and that nobody
\* else is freeing.
vPortFree_Call(t, pv) ==
    /\ pc[t] = "idle"
    /\ CallAllowed
    /\ pv \in allocated
    /\ \A u \in Tasks : ~(pc[u] = "vPortFree" /\ frame[u].pv = pv)
    /\ pc' = [pc EXCEPT ![t] = "vPortFree"]
    /\ frame' = [frame EXCEPT ![t] = [xWantedSize |-> SizeT(0), pv |-> pv]]
    /\ nCalls' = nCalls + 1
    /\ UNCHANGED <<if_merge_mem, configTOTAL_HEAP_SIZE, ucHeap, xStart, xEnd,
                   xFreeBytesRemaining, xHeapHasBeenInitialised, allocated,
                   log, recording>>

\* vTaskSuspendAll() ... xTaskResumeAll() of vPortFree, and its return.
vPortFree_Critical(t) ==
    /\ pc[t] = "vPortFree"
    /\ LET r == Release(Memory, xFreeBytesRemaining, frame[t].pv)
       IN  /\ Store(r.mem)
           /\ xFreeBytesRemaining' = r.xFreeBytesRemaining
    /\ allocated' = allocated \ {frame[t].pv}
    /\ log' = Logged(Entry("vPortFree", SizeT(0), frame[t].pv, NULL))
    /\ pc' = [pc EXCEPT ![t] = "idle"]
    /\ frame' = [frame EXCEPT ![t] = NoFrame]
    /\ UNCHANGED <<if_merge_mem, configTOTAL_HEAP_SIZE, xHeapHasBeenInitialised,
                   recording, nCalls>>

\* vPortFree_Null without the pv != NULL test: what stands in front of
\* address 0 is taken for a header and its size is added to the counter.
vPortFree_Null_NoTest(t) ==
    /\ pc[t] = "idle"
    /\ CallAllowed
    /\ log' = Logged(Entry("vPortFree", SizeT(0), NULL, NULL))
    /\ nCalls' = nCalls + 1
    /\ xFreeBytesRemaining' = xFreeBytesRemaining + heapSTRUCT_SIZE
    /\ UNCHANGED <<if_merge_mem, configTOTAL_HEAP_SIZE, ucHeap, xStart, xEnd,
                   xHeapHasBeenInitialised, pc, frame, allocated, recording>>

\* vPortFree( NULL ): the pv != NULL test fails and the function returns.
vPortFree_Null(t) ==
    /\ pc[t] = "idle"
    /\ CallAllowed
    /\ log' = Logged(Entry("vPortFree", SizeT(0), NULL, NULL))
    /\ nCalls' = nCalls + 1
    /\ UNCHANGED <<if_merge_mem, configTOTAL_HEAP_SIZE, ucHeap, xStart, xEnd,
                   xFreeBytesRemaining, xHeapHasBeenInitialised, pc, frame,
                   allocated, recording>>

xPortGetFreeHeapSize(t) ==
    /\ pc[t] = "idle"
    /\ CallAllowed
    /\ log' = Logged(Entry("xPortGetFreeHeapSize", SizeT(0), NULL, xFreeBytesRemaining))
    /\ nCalls' = nCalls + 1
    /\ UNCHANGED <<if_merge_mem, configTOTAL_HEAP_SIZE, ucHeap, xStart, xEnd,
                   xFreeBytesRemaining, xHeapHasBeenInitialised, pc, frame,
                   allocated, recording>>

\* The rows vPrintFreeList sends from curNode on: the start address of a
\* block, heapSTRUCT_SIZE, the block's size and its end address, as numbers.
RECURSIVE PrintedRows(_, _)
PrintedRows(M, curNode) ==
    IF curNode = pxEnd THEN << >>
    ELSE <<<<curNode, heapSTRUCT_SIZE, M[curNode].xBlockSize,
             curNode + M[curNode].xBlockSize>>>>
         \o PrintedRows(M, M[curNode].pxNextFreeBlock)

\* What one call of vPrintFreeList sends: a row for each block of the list
\* and a last line with configADJUSTED_HEAP_SIZE and xFreeBytesRemaining.
PrintedList ==
    PrintedRows(Memory, xStart.pxNextFreeBlock)
        \o <<<<configADJUSTED_HEAP_SIZE, xFreeBytesRemaining>>>>

\* vPrintFreeList(), called once the heap is initialised (before that
\* xStart.pxNextFreeBlock is NULL).  It never calls vTaskSuspendAll and
\* writes nothing the allocator holds; what it read is kept with the call.
vPrintFreeList(t) ==
    /\ pc[t] = "idle"
    /\ CallAllowed
    /\ xHeapHasBeenInitialised
    /\ log' = Logged(Entry("vPrintFreeList", SizeT(0), NULL, PrintedList))
    /\ nCalls' = nCalls + 1
    /\ UNCHANGED <<if_merge_mem, configTOTAL_HEAP_SIZE, ucHeap, xStart, xEnd,
                   xFreeBytesRemaining, xHeapHasBeenInitialised, pc, frame,
                   allocated, recording>>

Next ==
    \E t \in Tasks :
        \/ \E xWantedSize \in WantedSizes : pvPortMalloc_Call(t, xWantedSize)
        \/ pvPortMalloc_Critical(t)
        \/ \E pv \in allocated : vPortFree_Call(t, pv)
        \/ vPortFree_Critical(t)
        \/ vPortFree_Null(t)
        \/ xPortGetFreeHeapSize(t)
        \/ vPrintFreeList(t)

Spec == Init /\ [][Next]_vars

LogSpec == LogInit /\ [][Next]_vars

\* ------------------------------------------------------- derived notions
\* The blocks on the free list, in list order, as addresses: the walk from
\* p that stops at xEnd, at NULL, or when it has taken more steps than there
\* are headers.
RECURSIVE ListFrom(_, _, _)
ListFrom(M, p, fuel) ==
    IF p = pxEnd \/ p = NULL \/ p \notin DOMAIN M \/ fuel = 0 THEN << >>
    ELSE <<p>> \o ListFrom(M, M[p].pxNextFreeBlock, fuel - 1)

ListOf(M) == ListFrom(M, M[pxStart].pxNextFreeBlock, Cardinality(DOMAIN M))

\* The pointer at which the walk of ListOf stops.
LastLink(M) ==
    IF ListOf(M) = << >> THEN M[pxStart].pxNextFreeBlock
    ELSE M[ListOf(M)[Len(ListOf(M))]].pxNextFreeBlock

FreeList == ListOf(Memory)
FreeBlocks == {FreeList[i] : i \in DOMAIN FreeList}
AllocatedBlocks == {pv - heapSTRUCT_SIZE : pv \in allocated}
SizeOf(b) == Memory[b].xBlockSize

RECURSIVE SumSizes(_)
SumSizes(S) ==
    IF S = {} THEN 0
    ELSE LET b == CHOOSE x \in S : TRUE IN SizeOf(b) + SumSizes(S \ {b})

\* The usable arena, and the bytes of a block.
ArenaBytes == pucAlignedHeap .. (pucAlignedHeap + configADJUSTED_HEAP_SIZE - 1)
BytesOf(b) == b .. (b + SizeOf(b) - 1)

\* The memory the critical section of pvPortMalloc works on.
InitialisedMemory ==
    IF xHeapHasBeenInitialised = FALSE THEN prvHeapInit(Memory) ELSE Memory

\* The step is the critical section of pvPortMalloc / vPortFree of task t.
MallocStep(t) == pc[t] = "pvPortMalloc" /\ pc'[t] = "idle"
FreeStep(t) == pc[t] = "vPortFree" /\ pc'[t] = "idle"
\* What the pvPortMalloc of this step returned.
Returned ==
    IF allocated' \subseteq allocated THEN NULL
    ELSE CHOOSE p \in allocated' : p \notin allocated

TypeOK ==
    /\ xFreeBytesRemaining \in Nat
    /\ \A t \in Tasks : pc[t] \in {"idle", "pvPortMalloc", "vPortFree"}
    /\ xHeapHasBeenInitialised => xEnd = BlockLink_t(NULL, configADJUSTED_HEAP_SIZE)

\* =================================================================== claims

\* C1: conservation.  After every call, xFreeBytesRemaining plus the recorded
\* sizes of the allocated blocks is the usable arena size.
C1_Conservation ==
    xFreeBytesRemaining + SumSizes(AllocatedBlocks) = configADJUSTED_HEAP_SIZE

\* C2: partition.  Once the heap is initialised, every byte of the usable
\* arena lies in exactly one free-list or allocated block, and the sizes of
\* those blocks add up to the usable arena size.
C2_Partition ==
    xHeapHasBeenInitialised =>
        /\ \A a \in ArenaBytes :
              Cardinality({b \in FreeBlocks : a \in BytesOf(b)})
              + Cardinality({b \in AllocatedBlocks : a \in BytesOf(b)}) = 1
        /\ SumSizes(FreeBlocks) + SumSizes(AllocatedBlocks) = configADJUSTED_HEAP_SIZE

\* C4: no two allocated blocks overlap, each lies inside the usable arena,
\* and none overlaps a block of the free list.
C4_NoOverlap ==
    /\ \A a, b \in AllocatedBlocks : a # b => BytesOf(a) \cap BytesOf(b) = {}
    /\ \A a \in AllocatedBlocks : BytesOf(a) \subseteq ArenaBytes
    /\ \A a \in AllocatedBlocks : \A f \in FreeBlocks : BytesOf(a) \cap BytesOf(f) = {}

\* Two live allocations next to a free block while another task is inside
\* a call of vPortFree.
C4_Witness ==
    /\ Cardinality(allocated) >= 2
    /\ FreeBlocks # {}
    /\ \E t \in Tasks : pc[t] = "vPortFree"
    /\ \E t \in Tasks : pc[t] = "pvPortMalloc"

\* C5: sorted list.  Once the heap is initialised the walk from
\* xStart.pxNextFreeBlock ends at xEnd, block sizes never decrease along it,
\* xStart has size 0, and xEnd has the usable arena size and no successor.
C5_Sorted ==
    xHeapHasBeenInitialised =>
        /\ xStart.xBlockSize = 0
        /\ xEnd = BlockLink_t(NULL, configADJUSTED_HEAP_SIZE)
        /\ LastLink(Memory) = pxEnd
        /\ \A i, j \in DOMAIN FreeList :
              i < j => SizeOf(FreeList[i]) <= SizeOf(FreeList[j])
        /\ \A i \in DOMAIN FreeList : SizeOf(FreeList[i]) <= xEnd.xBlockSize

\* A list of at least two blocks of different sizes, one of them put there
\* by vPortFree (it lies below an allocated block).
C5_Witness ==
    /\ \E i, j \in DOMAIN FreeList : SizeOf(FreeList[i]) < SizeOf(FreeList[j])
    /\ \E f \in FreeBlocks : \E a \in AllocatedBlocks : f < a

\* The rounded request of the documentation: S plus the header, rounded up
\* to the alignment, computed without wrapping (for S below 2^16).
RoundedRequest(S) ==
    ((S[2] + heapSTRUCT_SIZE + portBYTE_ALIGNMENT - 1) \div portBYTE_ALIGNMENT)
        * portBYTE_ALIGNMENT

IsMalloc(e, S) == e.op = "pvPortMalloc" /\ e.xWantedSize = S
IsFree(e, pv) == e.op = "vPortFree" /\ e.pv = pv

\* C3: round trip.  Merging enabled, fresh arena: after a successful
\* pvPortMalloc( S ) and vPortFree of its result, xFreeBytesRemaining (the
\* value xPortGetFreeHeapSize returns) is the usable size U and the free list
\* is one block of size U at the aligned start of the arena.
C3_RoundTrip ==
    (/\ if_merge_mem = 1
     /\ Len(log) >= 2
     /\ log[1].op = "pvPortMalloc" /\ log[1].ret # NULL
     /\ IsFree(log[2], log[1].ret))
    =>  /\ Len(log) = 2 =>
              /\ xFreeBytesRemaining = configADJUSTED_HEAP_SIZE
              /\ FreeList = <<pucAlignedHeap>>
              /\ SizeOf(pucAlignedHeap) = configADJUSTED_HEAP_SIZE
        /\ (Len(log) >= 3 /\ log[3].op = "xPortGetFreeHeapSize") =>
              log[3].ret = configADJUSTED_HEAP_SIZE

\* No block of the free list ends where another one starts.
NoAdjacent == \A a, b \in FreeBlocks : a + SizeOf(a) # b

\* C6: no adjacency.  With merging enabled, after every vPortFree no two
\* blocks of the free list are address-adjacent.
C6_NoAdjacency ==
    [][(if_merge_mem = 1 /\ \E t \in Tasks : FreeStep(t)) => NoAdjacent']_vars

\* Merging enabled, and a block freed below an allocated block while
\* another free block exists.
C6_Witness ==
    /\ if_merge_mem = 1
    /\ Cardinality(FreeBlocks) >= 2
    /\ \E f \in FreeBlocks : \E a \in AllocatedBlocks : f < a

\* C7 as claimed: on a fresh arena the first pvPortMalloc( U - heapSTRUCT_SIZE )
\* returns a pointer and a second identical call returns NULL.
C7_ExhaustionAsClaimed ==
    LET S == SizeT(configADJUSTED_HEAP_SIZE - heapSTRUCT_SIZE)
    IN  /\ (Len(log) >= 1 /\ IsMalloc(log[1], S)) => log[1].ret # NULL
        /\ (Len(log) >= 2 /\ IsMalloc(log[1], S) /\ IsMalloc(log[2], S)) =>
              log[2].ret = NULL

\* C7 amended: on a fresh arena pvPortMalloc( U - heapSTRUCT_SIZE ) returns
\* NULL; the first pvPortMalloc( U - heapSTRUCT_SIZE - portBYTE_ALIGNMENT )
\* returns a pointer and a second identical call returns NULL.
C7_Exhaustion ==
    LET S == SizeT(configADJUSTED_HEAP_SIZE - heapSTRUCT_SIZE)
        L == SizeT(configADJUSTED_HEAP_SIZE - heapSTRUCT_SIZE - portBYTE_ALIGNMENT)
    IN  /\ (Len(log) >= 1 /\ IsMalloc(log[1], S)) => log[1].ret = NULL
        /\ (Len(log) >= 1 /\ IsMalloc(log[1], L)) => log[1].ret # NULL
        /\ (Len(log) >= 2 /\ IsMalloc(log[1], L) /\ IsMalloc(log[2], L)) =>
              log[2].ret = NULL

\* The largest request that fits was made twice in a row on a fresh arena.
C7_Witness ==
    LET L == SizeT(configADJUSTED_HEAP_SIZE - heapSTRUCT_SIZE - portBYTE_ALIGNMENT)
    IN  /\ Len(log) >= 2
        /\ IsMalloc(log[1], L) /\ log[1].ret # NULL
        /\ IsMalloc(log[2], L) /\ log[2].ret = NULL

\* C8: the returned region is large enough.  pvPortMalloc( S ) returns NULL
\* or a block whose recorded size minus the header is at least S.
C8_LargeEnough ==
    [][\A t \in Tasks :
          (MallocStep(t) /\ Returned # NULL) =>
              ~SizeLess(SizeT(Memory'[Returned - heapSTRUCT_SIZE].xBlockSize - heapSTRUCT_SIZE),
                        frame[t].xWantedSize)]_vars

\* C9: pvPortMalloc( S ), S > 0, returns NULL exactly when the rounded
\* request R is not below the usable arena size or no block of the free list
\* has xBlockSize >= R.
C9_NullExactlyOnOutOfMemory ==
    [][\A t \in Tasks :
          (MallocStep(t) /\ SizeLess(SizeT(0), frame[t].xWantedSize)) =>
              LET S == frame[t].xWantedSize
                  M == InitialisedMemory
                  blocks == {ListOf(M)[i] : i \in DOMAIN ListOf(M)}
                  outOfMemory ==
                      \/ S[1] > 0
                      \/ RoundedRequest(S) >= configADJUSTED_HEAP_SIZE
                      \/ ~\E b \in blocks : M[b].xBlockSize >= RoundedRequest(S)
              IN  (Returned = NULL) <=> outOfMemory]_vars

\* A successful pvPortMalloc of task t detaches a smallest block among the
\* blocks of the free list that are at least as large as the rounded request.
BestFitStep(t) ==
    (MallocStep(t) /\ Returned # NULL) =>
        LET M == InitialisedMemory
            R == RoundedRequest(frame[t].xWantedSize)
            blocks == {ListOf(M)[i] : i \in DOMAIN ListOf(M)}
            fitting == {c \in blocks : M[c].xBlockSize >= R}
            b == Returned - heapSTRUCT_SIZE
        IN  /\ b \in fitting
            /\ \A c \in fitting : M[b].xBlockSize <= M[c].xBlockSize

\* The scenario: A = malloc(100), B = malloc(200), free(A) have been done.
ScenarioPrefix ==
    /\ if_merge_mem = 1
    /\ heapSTRUCT_SIZE = 8 /\ portBYTE_ALIGNMENT = 8
    /\ configADJUSTED_HEAP_SIZE = 1024
    /\ Len(log) >= 3
    /\ IsMalloc(log[1], SizeT(100)) /\ log[1].ret # NULL
    /\ IsMalloc(log[2], SizeT(200)) /\ log[2].ret # NULL
    /\ IsFree(log[3], log[1].ret)

\* C10: best fit by size order, and in the scenario malloc(50) returns the
\* address of A.
C10_BestFit ==
    [][\A t \in Tasks :
          /\ BestFitStep(t)
          /\ (MallocStep(t) /\ ScenarioPrefix /\ Len(log) = 3
                /\ frame[t].xWantedSize = SizeT(50)) => Returned = log[1].ret]_vars

\* The scenario has run to its end and malloc(50) gave A's address back.
C10_Witness ==
    /\ ScenarioPrefix
    /\ Len(log) = 4
    /\ IsMalloc(log[4], SizeT(50)) /\ log[4].ret = log[1].ret

\* The block a successful pvPortMalloc step hands out.
ChosenBlock == Returned - heapSTRUCT_SIZE

\* The free blocks the search of a pvPortMalloc step walks.
BlocksBefore ==
    {ListOf(InitialisedMemory)[i] : i \in DOMAIN ListOf(InitialisedMemory)}

\* What a successful pvPortMalloc step does with the chosen block of size B
\* for the rounded request R when the split limit is xLimit: above the
\* limit the block keeps R bytes and the rest is a new free block at
\* block + R, otherwise the block is handed out whole.
SplitsAt(t, xLimit) ==
    LET pxBlock == ChosenBlock
        B == InitialisedMemory[pxBlock].xBlockSize
        R == SizeVal(AdjustedWantedSize(frame[t].xWantedSize))
    IN  IF B - R > xLimit
        THEN /\ Memory'[pxBlock].xBlockSize = R
             /\ FreeBlocks' = (BlocksBefore \ {pxBlock}) \cup {pxBlock + R}
             /\ Memory'[pxBlock + R].xBlockSize = B - R
        ELSE /\ Memory'[pxBlock].xBlockSize = B
             /\ FreeBlocks' = BlocksBefore \ {pxBlock}

\* C11 as claimed: the limit is twice the minimum block size.
C11_SplitAsClaimed ==
    [][\A t \in Tasks : (MallocStep(t) /\ Returned # NULL)
            => SplitsAt(t, 2 * heapMINIMUM_BLOCK_SIZE)]_vars

\* C11: split threshold.  When pvPortMalloc succeeds with a chosen block of
\* size B and a rounded request R, and B - R exceeds the minimum block size
\* (two header overheads), the allocated block is recorded with size R and
\* one new free block of size B - R starts at the block's address + R;
\* otherwise the whole block is handed out with recorded size B and no free
\* block is added.
C11_Split ==
    [][\A t \in Tasks : (MallocStep(t) /\ Returned # NULL)
            => SplitsAt(t, heapMINIMUM_BLOCK_SIZE)]_vars

\* A block that was split (32 of 72 bytes) next to one that was handed out
\* whole (the remaining 40 bytes for a request of at most 32).
C11_Witness ==
    /\ AllocatedBlocks = {pucAlignedHeap, pucAlignedHeap + 32}
    /\ SizeOf(pucAlignedHeap) = 32
    /\ SizeOf(pucAlignedHeap + 32) = 40
    /\ FreeBlocks = {}

\* C12: zero-size request.  pvPortMalloc( 0 ) returns NULL and leaves
\* xFreeBytesRemaining and the free list as they were, apart from the
\* initialisation of the heap if this is the first call.
C12_ZeroSize ==
    [][\A t \in Tasks :
          (MallocStep(t) /\ frame[t].xWantedSize = SizeT(0))
          => /\ Returned = NULL
             /\ log' = Append(log, Entry("pvPortMalloc", SizeT(0), NULL, NULL))
             /\ xFreeBytesRemaining' = xFreeBytesRemaining
             /\ Memory' = InitialisedMemory
             /\ allocated' = allocated]_vars

\* pvPortMalloc( 0 ) has returned NULL on a heap that holds both a live
\* allocation and free blocks.
C12_Witness ==
    /\ \E i \in DOMAIN log : i >= 2 /\ IsMalloc(log[i], SizeT(0)) /\ log[i].ret = NULL
    /\ allocated # {}
    /\ FreeBlocks # {}

\* The step is a call of vPortFree( NULL ) that returns.
NullFreeStep == log' = Append(log, Entry("vPortFree", SizeT(0), NULL, NULL))

\* C13: vPortFree( NULL ) is a no-op.  It changes neither the free list, nor
\* xFreeBytesRemaining, nor the header of any allocated block, and the
\* caller does not pass through the critical section: no task's position
\* changes and the initialisation flag is left alone.
C13_NullFree ==
    [][NullFreeStep =>
          /\ Memory' = Memory
          /\ xFreeBytesRemaining' = xFreeBytesRemaining
          /\ allocated' = allocated
          /\ xHeapHasBeenInitialised' = xHeapHasBeenInitialised
          /\ pc' = pc
          /\ \A t \in Tasks : ~MallocStep(t) /\ ~FreeStep(t)]_vars

\* vPortFree( NULL ) has returned on a heap with live allocations and a
\* free list.
C13_Witness ==
    /\ \E i \in DOMAIN log : i >= 2 /\ IsFree(log[i], NULL)
    /\ allocated # {}
    /\ FreeBlocks # {}

\* A fresh arena with merging disabled on which pvPortMalloc( S ) succeeded
\* and its result is the next thing freed.
ReusePrefix(n) ==
    /\ if_merge_mem = 0
    /\ Len(log) = n
    /\ log[1].op = "pvPortMalloc" /\ log[1].ret # NULL
    /\ n >= 2 => IsFree(log[2], log[1].ret)

\* C14: merging disabled, exact reuse.  On a fresh arena, after
\* p = pvPortMalloc( S ) succeeds and vPortFree( p ), the next
\* pvPortMalloc( S ) returns the same p, and the block keeps the recorded
\* size it had after the first call.
C14_ExactReuse ==
    [][/\ (ReusePrefix(1) /\ \E t \in Tasks : FreeStep(t) /\ frame[t].pv = log[1].ret)
          => Memory'[log[1].ret - heapSTRUCT_SIZE].xBlockSize
               = Memory[log[1].ret - heapSTRUCT_SIZE].xBlockSize
       /\ (ReusePrefix(2) /\ \E t \in Tasks :
                MallocStep(t) /\ frame[t].xWantedSize = log[1].xWantedSize)
          => /\ Returned = log[1].ret
             /\ Memory'[log[1].ret - heapSTRUCT_SIZE].xBlockSize
                  = Memory[log[1].ret - heapSTRUCT_SIZE].xBlockSize]_vars

\* The three calls have been made, the second allocation returned the
\* pointer of the first, and the rest of the arena is still on the list.
C14_Witness ==
    /\ if_merge_mem = 0
    /\ Len(log) = 3
    /\ log[1].op = "pvPortMalloc" /\ log[1].ret # NULL
    /\ IsFree(log[2], log[1].ret)
    /\ IsMalloc(log[3], log[1].xWantedSize) /\ log[3].ret = log[1].ret
    /\ FreeBlocks # {}

\* C15: merge absorbs both neighbours.  With merging enabled, when the
\* block freed (size s) has a free left neighbour (size l) and a free right
\* neighbour (size r), in whichever order the list holds them, the list
\* afterwards holds one block at the left neighbour's address of size
\* l + s + r, and neither the freed block nor the right neighbour.
C15_MergeBoth ==
    [][\A t \in Tasks :
          (if_merge_mem = 1 /\ FreeStep(t)) =>
            LET pxLink == frame[t].pv - heapSTRUCT_SIZE
                s == SizeOf(pxLink)
            IN  \A pxLeft \in FreeBlocks :
                  (pxLeft + SizeOf(pxLeft) = pxLink /\ pxLink + s \in FreeBlocks)
                  => /\ pxLeft \in FreeBlocks'
                     /\ Memory'[pxLeft].xBlockSize
                          = SizeOf(pxLeft) + s + SizeOf(pxLink + s)
                     /\ pxLink \notin FreeBlocks'
                     /\ (pxLink + s) \notin FreeBlocks']_vars

\* C16 as claimed: the counter goes down by the size the chosen block had on
\* the free list.
C16_DecrementAsClaimed ==
    [][\A t \in Tasks : (MallocStep(t) /\ Returned # NULL)
          => xFreeBytesRemaining'
               = xFreeBytesRemaining - InitialisedMemory[ChosenBlock].xBlockSize]_vars

\* C16: counter decrement on allocate.  Every successful pvPortMalloc
\* decrements xFreeBytesRemaining by the size recorded in the block it hands
\* out: the rounded request R when the chosen block of size B is split
\* (B - R above the minimum block size), and B when it is handed out whole.
C16_Decrement ==
    [][\A t \in Tasks : (MallocStep(t) /\ Returned # NULL)
          => LET B == InitialisedMemory[ChosenBlock].xBlockSize
                 R == SizeVal(AdjustedWantedSize(frame[t].xWantedSize))
             IN  /\ xFreeBytesRemaining' = xFreeBytesRemaining
                        - (IF B - R > heapMINIMUM_BLOCK_SIZE THEN R ELSE B)
                 /\ xFreeBytesRemaining' = xFreeBytesRemaining
                        - Memory'[ChosenBlock].xBlockSize]_vars

\* One block split off the arena and still allocated, the remainder free,
\* and the counter equal to what is on the free list.
C16_Witness ==
    /\ allocated = {pucAlignedHeap + heapSTRUCT_SIZE}
    /\ FreeBlocks = {pucAlignedHeap + SizeOf(pucAlignedHeap)}
    /\ xFreeBytesRemaining = configADJUSTED_HEAP_SIZE - SizeOf(pucAlignedHeap)

\* Position of block b in the list as it is after the step.
IndexAfter(b) ==
    CHOOSE i \in DOMAIN ListOf(Memory') : ListOf(Memory')[i] = b

\* The block that prvInsertBlockIntoFreeList linked in during the step: the
\* one on the list afterwards that holds address pxInserted.
LinkedBlock(pxInserted) ==
    CHOOSE b \in FreeBlocks' :
        b <= pxInserted /\ pxInserted < b + Memory'[b].xBlockSize

\* The blocks of the same final size as block p that were on the list before
\* the step and still are.
EqualSizeBefore(p) ==
    {q \in (BlocksBefore \cap FreeBlocks') \ {p} :
        Memory'[q].xBlockSize = Memory'[p].xBlockSize}

\* The address of the block a step passes to prvInsertBlockIntoFreeList: the
\* block freed, or the remainder split off the block allocated.
InsertedAt(t) ==
    IF FreeStep(t) THEN frame[t].pv - heapSTRUCT_SIZE
    ELSE ChosenBlock + Memory'[ChosenBlock].xBlockSize

\* The step of task t inserts a block into the free list.
InsertStep(t) ==
    \/ FreeStep(t)
    \/ /\ MallocStep(t) /\ Returned # NULL
       /\ Memory'[ChosenBlock].xBlockSize < InitialisedMemory[ChosenBlock].xBlockSize

\* The first block in list order that is large enough for R, if any.
FirstFit(M, R) ==
    LET L == ListOf(M)
        fits == {i \in DOMAIN L : M[L[i]].xBlockSize >= R}
    IN  IF fits = {} THEN NULL
        ELSE L[CHOOSE i \in fits : \A j \in fits : i <= j]

\* C17 as claimed: the inserted block comes after the blocks of equal size.
C17_TiesAsClaimed ==
    [][\A t \in Tasks : InsertStep(t) =>
          \A q \in EqualSizeBefore(LinkedBlock(InsertedAt(t))) :
              IndexAfter(q) < IndexAfter(LinkedBlock(InsertedAt(t)))]_vars

\* C17: order among equal sizes.  When prvInsertBlockIntoFreeList inserts a
\* block whose final size equals that of blocks already on the free list,
\* the new block is placed before all of them, and pvPortMalloc hands out
\* the first block in list order that is large enough: among blocks of equal
\* size, the one inserted last.
C17_Ties ==
    [][\A t \in Tasks :
          /\ InsertStep(t) =>
                \A q \in EqualSizeBefore(LinkedBlock(InsertedAt(t))) :
                    IndexAfter(LinkedBlock(InsertedAt(t))) < IndexAfter(q)
          /\ (MallocStep(t) /\ Returned # NULL) =>
                ChosenBlock = FirstFit(InitialisedMemory,
                                  SizeVal(AdjustedWantedSize(frame[t].xWantedSize)))]_vars

\* Two blocks of equal size follow each other on an unmerged list below a
\* larger one: the second of them to be inserted met the first.
C17_Witness ==
    /\ if_merge_mem = 0
    /\ Len(FreeList) >= 3
    /\ SizeOf(FreeList[1]) = SizeOf(FreeList[2])
    /\ SizeOf(FreeList[2]) < SizeOf(FreeList[3])

\* The step runs between vTaskSuspendAll and xTaskResumeAll.
CriticalStep == \E t \in Tasks : MallocStep(t) \/ FreeStep(t)

\* The step writes the free list, a block header or the counter.
WritesShared ==
    Memory' # Memory \/ xFreeBytesRemaining' # xFreeBytesRemaining

\* The step is a call that returns the counter or sends the list, both read
\* from the shared state as it is.
ReadsShared ==
    \/ log' = Append(log, Entry("xPortGetFreeHeapSize", SizeT(0), NULL,
                                xFreeBytesRemaining))
    \/ /\ xHeapHasBeenInitialised
       /\ log' = Append(log, Entry("vPrintFreeList", SizeT(0), NULL, PrintedList))

\* C18: shared state is touched only inside the critical section.  Every
\* step of pvPortMalloc, vPortFree, xPortGetFreeHeapSize or vPrintFreeList
\* that reads or writes the free list, the block headers or
\* xFreeBytesRemaining is made between vTaskSuspendAll and xTaskResumeAll.
C18_OnlyInCritical ==
    [][(WritesShared \/ ReadsShared) => CriticalStep]_vars

\* The half of C18 that is about writes.
WritesOnlyInCritical == [][WritesShared => CriticalStep]_vars

\* C19: initialise exactly once.  prvHeapInit runs in the first pvPortMalloc
\* to enter the critical section, whether that call succeeds or fails, also
\* when several tasks have made their first call; the flag
\* xHeapHasBeenInitialised is set there and nowhere else and is never
\* cleared, and every later pvPortMalloc works on the free list and the
\* sentinels as they are.
C19_InitOnce ==
    [][/\ xHeapHasBeenInitialised => xHeapHasBeenInitialised'
       /\ (~xHeapHasBeenInitialised /\ xHeapHasBeenInitialised')
             => \E t \in Tasks : MallocStep(t)
       /\ \A t \in Tasks : MallocStep(t) =>
             /\ xHeapHasBeenInitialised'
             /\ ~xHeapHasBeenInitialised =>
                   Memory' = Allocate(prvHeapInit(Memory), xFreeBytesRemaining,
                                      frame[t].xWantedSize).mem
             /\ xHeapHasBeenInitialised =>
                   /\ Memory' = Allocate(Memory, xFreeBytesRemaining,
                                         frame[t].xWantedSize).mem
                   /\ xEnd' = xEnd
                   /\ \A b \in AllocatedBlocks :
                         Memory'[b].xBlockSize = Memory[b].xBlockSize]_vars

\* The heap is initialised, two allocations made since are both live, and a
\* further call of pvPortMalloc is waiting to enter the critical section.
C19_Witness ==
    /\ xHeapHasBeenInitialised
    /\ Cardinality(allocated) >= 2
    /\ \E t \in Tasks : pc[t] = "pvPortMalloc"

\* C20: a failed allocation changes nothing.  When pvPortMalloc returns NULL
\* on an initialised heap (request too large, no free block large enough, or
\* size 0), the free list with its blocks, sizes and order,
\* xFreeBytesRemaining, the sentinels and every header in the arena are the
\* same after the call as before, and so is the set of live allocations.
C20_FailureChangesNothing ==
    [][\A t \in Tasks :
          (MallocStep(t) /\ xHeapHasBeenInitialised
           /\ log' = Append(log, Entry("pvPortMalloc", frame[t].xWantedSize, NULL, NULL)))
          => /\ ListOf(Memory') = ListOf(Memory)
             /\ Memory' = Memory
             /\ xFreeBytesRemaining' = xFreeBytesRemaining
             /\ allocated' = allocated]_vars

\* Each kind of failure has happened on an initialised heap whose arena is
\* allocated as a whole: no block large enough, a request that is too
\* large, and a request of 0.
C20_Witness ==
    /\ Len(log) = 4
    /\ log[1].op = "pvPortMalloc" /\ log[1].ret # NULL
    /\ IsMalloc(log[2], SizeT(50)) /\ log[2].ret = NULL
    /\ IsMalloc(log[3], SizeT(configADJUSTED_HEAP_SIZE - heapSTRUCT_SIZE))
    /\ log[3].ret = NULL
    /\ IsMalloc(log[4], SizeT(0)) /\ log[4].ret = NULL
    /\ allocated = {log[1].ret}
    /\ FreeBlocks = {}

====
